---- MODULE Spec2Model ----
(***************************************************************************)
(* A model of imagenet/main.py: the AverageMeter bookkeeping and its       *)
(* distributed reduction, the top-k accuracy function, the benchmarking    *)
(* loops of train and validate, the epoch loop of main_worker, the        *)
(* global rank assignment of main / main_worker, validate in a distributed *)
(* run, and the set-up of main_worker (resume, image size, datasets).      *)
(*                                                                         *)
(* Python's real-valued quantities (durations, sums, averages) are         *)
(* modelled by exact rationals: an integer, or a normalised pair           *)
(* <<numerator, denominator>> for the result of a true division.           *)
(***************************************************************************)
EXTENDS Integers, Sequences, FiniteSets, TLC

(***************************************************************************)
(* Bounds of the model.                                                    *)
(***************************************************************************)
NRanks == 2
MaxUpdates == 3
MaxIter == 3
MaxWarmup == 2
MaxLen == 3
MaxEpochs == 2
MaxBatch == 2
MaxNodes == 3
MaxGpus == 2
MaxDataset == 5

\* the values and weights update() is called with
MeterVals == {0, 1, 3}
MeterNs == {1, 2}

VARIABLES
    meter,      \* [rank -> AverageMeter fields]
    hist,       \* [rank -> the update(val, n) calls since the last reset()]
    arpc,       \* [rank -> position in all_reduce]
    contrib,    \* [rank -> the tensor [sum, count] the rank handed to dist.all_reduce]
    args,       \* the parsed command line of a worker run
    proc,       \* [process -> the state of its main_worker call]
    accuracy_call, \* one call of accuracy(output, target, topk)
    nodes,      \* [node -> the state of its main()]
    spawned,    \* [<<node, gpu>> -> the state of a spawned main_worker]
    setup       \* main_worker from the parsed command line to the datasets

meterVars == <<meter, hist, arpc, contrib>>
workerVars == <<args, proc>>
rankVars == <<nodes, spawned>>
vars == <<meter, hist, arpc, contrib, args, proc, accuracy_call, nodes, spawned, setup>>

\* what the actions of one part of the program leave alone
notMeter == <<workerVars, accuracy_call, rankVars, setup>>
notWorker == <<meterVars, accuracy_call, rankVars, setup>>
notAcc == <<meterVars, workerVars, rankVars, setup>>
notRank == <<meterVars, workerVars, accuracy_call, setup>>
notSetup == <<meterVars, workerVars, accuracy_call, rankVars>>

(***************************************************************************)
(* Arithmetic helpers.                                                     *)
(***************************************************************************)
Abs(x) == IF x < 0 THEN -x ELSE x

Min(a, b) == IF a <= b THEN a ELSE b

Max(a, b) == IF a >= b THEN a ELSE b

RECURSIVE GCD(_, _)
GCD(a, b) == IF b = 0 THEN a ELSE GCD(b, a % b)

\* a / b of Python (true division) for b > 0, as a fraction in lowest terms
TrueDiv(a, b) ==
    LET g == GCD(Abs(a), b)
    IN  <<a \div g, b \div g>>

RECURSIVE SumOver(_, _)
SumOver(f, S) ==
    IF S = {} THEN 0
    ELSE LET x == CHOOSE y \in S : TRUE
         IN  f[x] + SumOver(f, S \ {x})

(***************************************************************************)
(* class AverageMeter                                                      *)
(***************************************************************************)
\* reset(): val = avg = sum = count = 0
MeterReset == [val |-> 0, avg |-> <<0, 1>>, sum |-> 0, count |-> 0]

\* a slip in update(): the weight n is left out of the running sum
MeterUpdateUnweighted(m, v, n) ==
    [val |-> v, sum |-> m.sum + v, count |-> m.count + n,
     avg |-> TrueDiv(m.sum + v, m.count + n)]

\* update(val, n): val = val; sum += val * n; count += n; avg = sum / count
MeterUpdate(m, v, n) ==
    [val |-> v, sum |-> m.sum + v * n, count |-> m.count + n,
     avg |-> TrueDiv(m.sum + v * n, m.count + n)]

Ranks == 1 .. NRanks

\* a slip in all_reduce(): the reduction keeps the largest entry, not the total
AllReduceMax(c) ==
    <<CHOOSE x \in {c[r][1] : r \in Ranks} : \A r \in Ranks : c[r][1] <= x,
      CHOOSE x \in {c[r][2] : r \in Ranks} : \A r \in Ranks : c[r][2] <= x>>

\* dist.all_reduce(total, ReduceOp.SUM): the elementwise total over all ranks
AllReduceSum(c) ==
    <<SumOver([r \in Ranks |-> c[r][1]], Ranks),
      SumOver([r \in Ranks |-> c[r][2]], Ranks)>>

\* the parts of the program a specification does not run
WorkerIdle ==
    /\ args = <<>>
    /\ proc = <<>>

AccIdle == accuracy_call = <<>>

SetupIdle == setup = <<>>

RankIdle ==
    /\ nodes = <<>>
    /\ spawned = <<>>

MeterIdle ==
    /\ meter = <<>>
    /\ hist = <<>>
    /\ arpc = <<>>
    /\ contrib = <<>>

InitMeter ==
    /\ SetupIdle
    /\ WorkerIdle
    /\ AccIdle
    /\ RankIdle
    /\ meter = [r \in Ranks |-> MeterReset]
    /\ hist = [r \in Ranks |-> <<>>]
    /\ arpc = [r \in Ranks |-> "idle"]
    /\ contrib = [r \in Ranks |-> <<0, 0>>]

NumUpdates == SumOver([r \in Ranks |-> Len(hist[r])], Ranks)

\* meter.update(v, n) on rank r
Update(r) ==
    /\ arpc[r] = "idle"
    /\ NumUpdates < MaxUpdates
    /\ \E v \in MeterVals, n \in MeterNs :
          /\ meter' = [meter EXCEPT ![r] = MeterUpdate(meter[r], v, n)]
          /\ hist' = [hist EXCEPT ![r] = Append(hist[r], <<v, n>>)]
    /\ UNCHANGED <<arpc, contrib>>
    /\ UNCHANGED notMeter

\* meter.reset() on rank r
Reset(r) ==
    /\ arpc[r] = "idle"
    /\ hist[r] # <<>>
    /\ meter' = [meter EXCEPT ![r] = MeterReset]
    /\ hist' = [hist EXCEPT ![r] = <<>>]
    /\ UNCHANGED <<arpc, contrib>>
    /\ UNCHANGED notMeter

\* all_reduce(), first half: build total = [sum, count] and enter the collective
AllReduceEnter(r) ==
    /\ arpc[r] = "idle"
    /\ contrib' = [contrib EXCEPT ![r] = <<meter[r].sum, meter[r].count>>]
    /\ arpc' = [arpc EXCEPT ![r] = "waiting"]
    /\ UNCHANGED <<meter, hist>>
    /\ UNCHANGED notMeter

\* all_reduce(), second half: the collective returns once every rank has joined;
\* sum, count = total.tolist(); avg = sum / count, which raises
\* ZeroDivisionError (after sum and count are assigned) when count is 0
AllReduceFinish(r) ==
    /\ arpc[r] = "waiting"
    /\ \A q \in Ranks : arpc[q] # "idle"
    /\ LET total == AllReduceSum(contrib)
       IN  IF total[2] = 0
           THEN /\ meter' = [meter EXCEPT ![r].sum = total[1], ![r].count = total[2]]
                /\ arpc' = [arpc EXCEPT ![r] = "error"]
           ELSE /\ meter' = [meter EXCEPT ![r].sum = total[1], ![r].count = total[2],
                                          ![r].avg = TrueDiv(total[1], total[2])]
                /\ arpc' = [arpc EXCEPT ![r] = "done"]
    /\ UNCHANGED <<hist, contrib>>
    /\ UNCHANGED notMeter

NextMeter ==
    \E r \in Ranks :
        \/ Update(r)
        \/ Reset(r)
        \/ AllReduceEnter(r)
        \/ AllReduceFinish(r)

SpecMeter == InitMeter /\ [][NextMeter]_vars

(***************************************************************************)
(* Properties of AverageMeter.                                             *)
(***************************************************************************)
RECURSIVE HistSum(_)
HistSum(h) == IF h = <<>> THEN 0 ELSE h[1][1] * h[1][2] + HistSum(Tail(h))

RECURSIVE HistCount(_)
HistCount(h) == IF h = <<>> THEN 0 ELSE h[1][2] + HistCount(Tail(h))

\* C3: after reset() followed by update(val_j, n_j) calls with n_j >= 1, a meter
\* has sum = the sum of val_j * n_j, count = the sum of n_j, avg * count = sum
\* and val = the val of the last update; after reset() alone all four are 0.
C3_MeterAccounting ==
    \A r \in Ranks :
        arpc[r] \in {"idle", "waiting"} =>
            /\ meter[r].sum = HistSum(hist[r])
            /\ meter[r].count = HistCount(hist[r])
            /\ meter[r].avg[1] * meter[r].count = meter[r].sum * meter[r].avg[2]
            /\ hist[r] # <<>> => meter[r].val = hist[r][Len(hist[r])][1]
            /\ hist[r] = <<>> => /\ meter[r].val = 0
                                 /\ meter[r].avg = <<0, 1>>
                                 /\ meter[r].sum = 0
                                 /\ meter[r].count = 0

\* a meter that took two updates with different values and a weight above 1
C3_Witness ==
    \E r \in Ranks :
        /\ arpc[r] = "idle"
        /\ Len(hist[r]) >= 2
        /\ hist[r][1][1] # hist[r][2][1]
        /\ hist[r][2][2] = 2
        /\ meter[r].sum > meter[r].count

\* C6: once every rank has called all_reduce, each rank that has come out of the
\* collective holds sum = the total of the ranks' pre-call sums, count = the total
\* of their pre-call counts and avg * count = sum (avg = sum / count, computed when
\* the total count is not 0), and any two such ranks agree on sum, count and avg.
C6_AllReduceTotals ==
    \A r \in Ranks :
        arpc[r] \in {"done", "error"} =>
            /\ meter[r].sum = SumOver([q \in Ranks |-> contrib[q][1]], Ranks)
            /\ meter[r].count = SumOver([q \in Ranks |-> contrib[q][2]], Ranks)
            /\ meter[r].avg[1] * meter[r].count = meter[r].sum * meter[r].avg[2]
            /\ arpc[r] = "done" => meter[r].count > 0
            /\ \A q \in Ranks :
                  arpc[q] \in {"done", "error"} =>
                      /\ meter[q].sum = meter[r].sum
                      /\ meter[q].count = meter[r].count
                      /\ meter[q].avg = meter[r].avg

\* every rank has returned from all_reduce and the ranks' own sums and counts differed
C6_Witness ==
    /\ \A r \in Ranks : arpc[r] = "done"
    /\ \E r, q \in Ranks : /\ contrib[r][1] > contrib[q][1]
                           /\ contrib[q][2] > contrib[r][2]
                           /\ contrib[r][2] > 0

(***************************************************************************)
(* main_worker from the --evaluate branch on: validate, or the epoch loop  *)
(* with train.  One record per process; args is the parsed command line.   *)
(***************************************************************************)
\* --batch-size (default)
DefaultBatchSize == 256

\* time.time() - start_time of one iteration
Durations == {1, 2}

\* the top-1 accuracy of the model's output on one batch
AccVals == {0, 100}

\* best_acc1 = 0 at module level
InitialBestAcc1 == 0

ArgsSet ==
    [num_iter : -1 .. MaxIter,
     num_warmup : -1 .. MaxWarmup,
     len_loader : 0 .. MaxLen,
     batch_size : {DefaultBatchSize},
     evaluate : BOOLEAN,
     profile : BOOLEAN,
     jit : BOOLEAN,
     bn_folding_cuda : BOOLEAN,
     start_epoch : 0 .. MaxEpochs,
     epochs : 0 .. MaxEpochs,
     distributed : BOOLEAN,
     world_size : 1 .. NRanks]

Procs == DOMAIN proc

ProcInit(a) ==
    [pc |-> "main_worker",
     epoch |-> a.start_epoch,
     i |-> 0,
     batch_time |-> MeterReset,
     top1 |-> MeterReset,
     top5 |-> MeterReset,
     model |-> "model",
     trace |-> "none",
     iters |-> <<>>,
     trained |-> <<>>,
     validated |-> 0,
     run_validate_calls |-> 0,
     scheduler_steps |-> 0,
     checkpoints |-> <<>>,
     best_acc1 |-> InitialBestAcc1,
     latency |-> <<0, 1>>,
     perf |-> <<0, 1>>,
     total |-> <<0, 0>>,
     all_reduce_calls |-> 0,
     ret |-> <<0, 1>>,
     err |-> "none"]

\* a worker run that is not distributed: one process; flags that the taken
\* branch never reads are held at their defaults
InitWorker ==
    /\ SetupIdle
    /\ MeterIdle
    /\ AccIdle
    /\ RankIdle
    /\ args \in {a \in ArgsSet :
                    /\ ~a.distributed /\ a.world_size = 1
                    /\ a.evaluate => a.start_epoch = 0
                    /\ ~a.evaluate => ~a.jit
                    /\ ~a.jit => ~a.bn_folding_cuda}
    /\ proc = [p \in 1 .. args.world_size |-> ProcInit(args)]

\* a slip in profile_iter: the warmup is subtracted, not added
ProfileIterDifference(a) == (a.num_iter - a.num_warmup) \div 2

\* profile_iter = (args.num_iter + args.num_warmup) // 2
ProfileIter(a) == (a.num_iter + a.num_warmup) \div 2

\* a slip in the break test: the loop stops one iteration late
LoopBreakLate(i, a) == i = a.num_iter + 1

\* if i == args.num_iter: break
LoopBreak(i, a) == i = a.num_iter

\* a slip in the window test: the first measured iteration is skipped
MeasuredStrict(i, a) == i > a.num_warmup

\* if i >= args.num_warmup: batch_time.update(duration)
Measured(i, a) == i >= a.num_warmup

\* context_func(args.profile and i == profile_iter, ...)
Profiled(i, a) == a.profile /\ i = ProfileIter(a)

\* the record of one executed loop body
IterRecord(fn, i, d, acc, a) ==
    [fn |-> fn, i |-> i, duration |-> d, acc |-> acc,
     timed |-> Measured(i, a), profiled |-> Profiled(i, a)]

\* a slip in the --evaluate test: the epoch loop is entered in every mode
BranchAlwaysTrain(a) == "epoch_loop"

\* if args.evaluate: validate(...); return      else: the epoch loop
Branch(a) == IF a.evaluate THEN "validate" ELSE "epoch_loop"

\* main_worker after the model, the data loaders and the optimizer are set up
MainWorkerDispatch(p) ==
    /\ p \in Procs
    /\ proc[p].pc = "main_worker"
    /\ proc' = [proc EXCEPT ![p].pc = Branch(args)]
    /\ UNCHANGED <<args, notWorker>>

\* for epoch in range(args.start_epoch, args.epochs): train(...) is entered with
\* fresh meters; an exhausted range ends main_worker
EpochLoop(p) ==
    /\ p \in Procs
    /\ proc[p].pc = "epoch_loop"
    /\ IF proc[p].epoch < args.epochs
       THEN proc' = [proc EXCEPT ![p].pc = "train_loop",
                                 ![p].trained = Append(@, proc[p].epoch),
                                 ![p].i = 0,
                                 ![p].batch_time = MeterReset,
                                 ![p].top1 = MeterReset,
                                 ![p].top5 = MeterReset]
       ELSE proc' = [proc EXCEPT ![p].pc = "returned"]
    /\ UNCHANGED <<args, notWorker>>

\* one body of the loop of train: accuracy and meters, then the timing window
TrainIter(p) ==
    /\ p \in Procs
    /\ proc[p].pc = "train_loop"
    /\ proc[p].i < args.len_loader
    /\ ~LoopBreak(proc[p].i, args)
    /\ \E d \in Durations, acc \in AccVals :
          proc' = [proc EXCEPT
                     ![p].top1 = MeterUpdate(@, acc, args.batch_size),
                     ![p].batch_time = IF Measured(proc[p].i, args)
                                       THEN MeterUpdate(@, d, 1) ELSE @,
                     ![p].iters = Append(@, IterRecord("train", proc[p].i, d, acc, args)),
                     ![p].i = @ + 1]
    /\ UNCHANGED <<args, notWorker>>

\* the loop of train ends: the loader is exhausted or i == num_iter breaks
TrainLoopExit(p) ==
    /\ p \in Procs
    /\ proc[p].pc = "train_loop"
    /\ proc[p].i >= args.len_loader \/ LoopBreak(proc[p].i, args)
    /\ proc' = [proc EXCEPT ![p].pc = "train_report"]
    /\ UNCHANGED <<args, notWorker>>

\* latency = batch_time.avg / batch_size * 1000; perf = batch_size / batch_time.avg;
\* the division raises ZeroDivisionError when batch_time.avg is 0
Report(m, bs) ==
    IF m.avg[1] = 0
    THEN [ok |-> FALSE, latency |-> <<0, 1>>, perf |-> <<0, 1>>]
    ELSE [ok |-> TRUE,
          latency |-> TrueDiv(m.avg[1] * 1000, m.avg[2] * bs),
          perf |-> TrueDiv(bs * m.avg[2], m.avg[1])]

\* the end of train: the latency and throughput report
TrainReport(p) ==
    /\ p \in Procs
    /\ proc[p].pc = "train_report"
    /\ LET r == Report(proc[p].batch_time, args.batch_size)
       IN  IF r.ok
           THEN proc' = [proc EXCEPT ![p].pc = "train_returned",
                                     ![p].latency = r.latency,
                                     ![p].perf = r.perf]
           ELSE proc' = [proc EXCEPT ![p].pc = "error",
                                     ![p].err = "ZeroDivisionError"]
    /\ UNCHANGED <<args, notWorker>>

\* the statement after train(...) in the epoch loop: return
EpochReturn(p) ==
    /\ p \in Procs
    /\ proc[p].pc = "train_returned"
    /\ proc' = [proc EXCEPT ![p].pc = "returned"]
    /\ UNCHANGED <<args, notWorker>>

\* validate up to the first run_validate pass: with --jit a sample batch is
\* drawn (StopIteration on an empty loader), torch.jit.trace either gives the
\* traced model or raises RuntimeError / TypeError, which is caught and leaves
\* the model as it was; the conv+bn folding line then calls wrap_cpp_module,
\* a name the module never binds (NameError). The meters are created fresh.
Validate(p) ==
    /\ p \in Procs
    /\ proc[p].pc = "validate"
    /\ LET started == [proc[p] EXCEPT !.validated = @ + 1,
                                      !.i = 0,
                                      !.batch_time = MeterReset,
                                      !.top1 = MeterReset,
                                      !.top5 = MeterReset]
       IN  IF ~args.jit
           THEN proc' = [proc EXCEPT ![p] = [started EXCEPT !.pc = "val_loop",
                                                            !.run_validate_calls = @ + 1]]
           ELSE IF args.len_loader = 0
           THEN proc' = [proc EXCEPT ![p] = [started EXCEPT !.pc = "error",
                                                            !.err = "StopIteration"]]
           ELSE \E outcome \in {"traced", "failed"} :
                   LET m == IF outcome = "traced" THEN "modelJit" ELSE "model"
                   IN  IF args.bn_folding_cuda
                       THEN proc' = [proc EXCEPT ![p] =
                                        [started EXCEPT !.pc = "error",
                                                        !.err = "NameError",
                                                        !.trace = outcome,
                                                        !.model = m]]
                       ELSE proc' = [proc EXCEPT ![p] =
                                        [started EXCEPT !.pc = "val_loop",
                                                        !.run_validate_calls = @ + 1,
                                                        !.trace = outcome,
                                                        !.model = m]]
    /\ UNCHANGED <<args, notWorker>>

\* one body of the loop of run_validate: the forward pass and the timing
\* window; no accuracy is computed and no accuracy meter is touched
ValIter(p) ==
    /\ p \in Procs
    /\ proc[p].pc = "val_loop"
    /\ proc[p].i < args.len_loader
    /\ ~LoopBreak(proc[p].i, args)
    /\ \E d \in Durations, acc \in AccVals :
          proc' = [proc EXCEPT
                     ![p].batch_time = IF Measured(proc[p].i, args)
                                       THEN MeterUpdate(@, d, 1) ELSE @,
                     ![p].iters = Append(@, IterRecord("run_validate", proc[p].i, d, acc, args)),
                     ![p].i = @ + 1]
    /\ UNCHANGED <<args, notWorker>>

\* the loop of run_validate ends: the loader is exhausted or i == num_iter breaks
ValLoopExit(p) ==
    /\ p \in Procs
    /\ proc[p].pc = "val_loop"
    /\ proc[p].i >= args.len_loader \/ LoopBreak(proc[p].i, args)
    /\ proc' = [proc EXCEPT ![p].pc = "val_report"]
    /\ UNCHANGED <<args, notWorker>>

\* the end of run_validate: the latency and throughput report
ValReport(p) ==
    /\ p \in Procs
    /\ proc[p].pc = "val_report"
    /\ LET r == Report(proc[p].batch_time, args.batch_size)
       IN  IF r.ok
           THEN proc' = [proc EXCEPT ![p].pc = "val_pass_done",
                                     ![p].latency = r.latency,
                                     ![p].perf = r.perf]
           ELSE proc' = [proc EXCEPT ![p].pc = "error",
                                     ![p].err = "ZeroDivisionError"]
    /\ UNCHANGED <<args, notWorker>>

\* validate after run_validate when the run is not distributed: return top1.avg,
\* and main_worker returns
ValidateReturn(p) ==
    /\ p \in Procs
    /\ proc[p].pc = "val_pass_done"
    /\ ~args.distributed
    /\ proc' = [proc EXCEPT ![p].pc = "returned",
                            ![p].ret = proc[p].top1.avg]
    /\ UNCHANGED <<args, notWorker>>

NextWorker ==
    \E p \in Ranks :
        \/ MainWorkerDispatch(p)
        \/ EpochLoop(p)
        \/ TrainIter(p)
        \/ TrainLoopExit(p)
        \/ TrainReport(p)
        \/ EpochReturn(p)
        \/ Validate(p)
        \/ ValIter(p)
        \/ ValLoopExit(p)
        \/ ValReport(p)
        \/ ValidateReturn(p)

SpecWorker == InitWorker /\ [][NextWorker]_vars

(***************************************************************************)
(* validate in a distributed run: every process of the world runs          *)
(* main_worker with the same command line on its own shard of the          *)
(* validation set.                                                         *)
(***************************************************************************)
\* --batch-size values of the distributed runs
DistBatchSizes == {1, DefaultBatchSize}

CeilDiv(a, b) == (a + b - 1) \div b

\* len(val_sampler) of DistributedSampler(val_dataset, shuffle=False,
\* drop_last=True): the dataset length divided by the number of replicas,
\* the remainder dropped
SamplerLen(a) == a.len_dataset \div a.world_size

\* len(val_loader) of DataLoader(val_dataset, batch_size, sampler=val_sampler)
LoaderLen(a) == CeilDiv(SamplerLen(a), a.batch_size)

\* the command lines of a distributed evaluation run over a dataset of
\* len_dataset samples; the loader length follows from the sampler
DistArgs ==
    {[a EXCEPT !.len_loader = LoaderLen(a)] :
        a \in {[b EXCEPT !.batch_size = bs] @@ [len_dataset |-> n] :
                  b \in {c \in ArgsSet :
                            /\ c.distributed /\ c.world_size = NRanks
                            /\ c.evaluate /\ c.start_epoch = 0 /\ c.epochs = 0
                            /\ ~c.jit /\ ~c.bn_folding_cuda /\ ~c.profile
                            /\ c.len_loader = 0},
                  bs \in DistBatchSizes,
                  n \in 1 .. MaxDataset}}

InitDist ==
    /\ SetupIdle
    /\ MeterIdle
    /\ AccIdle
    /\ RankIdle
    /\ args \in DistArgs
    /\ proc = [p \in 1 .. args.world_size |-> ProcInit(args)]

\* the condition of the auxiliary pass of validate
AuxNeeded(a) ==
    a.distributed /\ SamplerLen(a) * a.world_size < a.len_dataset

\* range(len(val_loader.sampler) * args.world_size, len(val_loader.dataset))
AuxIndices(a) == SamplerLen(a) * a.world_size .. a.len_dataset - 1

\* the indices DistributedSampler hands to the replica of rank r (0-based):
\* indices[r : total_size : num_replicas] of the first total_size indices
SamplerIndices(a, r) ==
    {j \in 0 .. SamplerLen(a) * a.world_size - 1 : j % a.world_size = r}

\* validate after run_validate in a distributed run: top1.all_reduce() builds
\* total = [sum, count] and enters the collective
ValAllReduceEnter(p) ==
    /\ p \in Procs
    /\ proc[p].pc = "val_pass_done"
    /\ args.distributed
    /\ proc' = [proc EXCEPT ![p].pc = "top1_all_reduce",
                            ![p].total = <<proc[p].top1.sum, proc[p].top1.count>>,
                            ![p].all_reduce_calls = @ + 1]
    /\ UNCHANGED <<args, notWorker>>

\* top1.all_reduce() once every process has joined the collective:
\* sum, count = total.tolist(); avg = sum / count raises ZeroDivisionError
\* when the total count is 0, otherwise validate goes on to top5.all_reduce()
ValAllReduceFinish(p) ==
    /\ p \in Procs
    /\ proc[p].pc = "top1_all_reduce"
    /\ \A q \in Procs : proc[q].all_reduce_calls >= proc[p].all_reduce_calls
    /\ LET total == AllReduceSum([q \in Ranks |-> proc[q].total])
       IN  IF total[2] = 0
           THEN proc' = [proc EXCEPT ![p].pc = "error",
                                     ![p].err = "ZeroDivisionError",
                                     ![p].top1.sum = total[1],
                                     ![p].top1.count = total[2]]
           ELSE proc' = [proc EXCEPT ![p].pc = "top5_all_reduce",
                                     ![p].top1.sum = total[1],
                                     ![p].top1.count = total[2],
                                     ![p].top1.avg = TrueDiv(total[1], total[2])]
    /\ UNCHANGED <<args, notWorker>>

NextDist ==
    \E p \in Ranks :
        \/ MainWorkerDispatch(p)
        \/ Validate(p)
        \/ ValIter(p)
        \/ ValLoopExit(p)
        \/ ValReport(p)
        \/ ValAllReduceEnter(p)
        \/ ValAllReduceFinish(p)

SpecDist == InitDist /\ [][NextDist]_vars

(***************************************************************************)
(* accuracy(output, target, topk)                                          *)
(***************************************************************************)
Classes == {1, 2, 3}

Scores == {0, 1, 2}

\* one row of output: every weak ordering of the classes occurs, with its
\* scores scaled to 0 .. 2
ScoreRows ==
    {row \in [Classes -> Scores] :
        \/ (\E c \in Classes : row[c] = 0) /\ (\E c \in Classes : row[c] = 2)
        \/ \A c \in Classes : row[c] = 0}

\* the topk arguments tried; train calls accuracy with two values of k
TopkChoices == {<<1>>, <<1, 2>>, <<3, 1>>}

\* maxk = max(topk)
MaxOf(topk) == CHOOSE k \in {topk[j] : j \in 1 .. Len(topk)} :
                  \A j \in 1 .. Len(topk) : topk[j] <= k

\* the index rows output.topk(maxk, 1, True, True) may return for one score
\* row: maxk distinct classes, scores non-increasing, none left out that
\* scores higher than one kept; equal scores come in either order
TopkRows(row, maxk) ==
    {q \in [1 .. maxk -> Classes] :
        /\ \A a, b \in 1 .. maxk : a < b => q[a] # q[b] /\ row[q[a]] >= row[q[b]]
        /\ \A c \in Classes :
              (\A a \in 1 .. maxk : q[a] # c) => row[c] <= row[q[maxk]]}

\* the results output.topk may return for a whole batch, row by row
RECURSIVE TopkBatch(_, _)
TopkBatch(output, maxk) ==
    IF output = <<>> THEN {<<>>}
    ELSE {<<q>> \o rest : q \in TopkRows(output[1], maxk),
                          rest \in TopkBatch(Tail(output), maxk)}

\* pred = pred.t(); correct = pred.eq(target.view(1, -1).expand_as(pred))
Correct(pred, target) ==
    [j \in DOMAIN pred |-> [s \in DOMAIN target |-> pred[j][s] = target[s]]]

\* a slip in the slice: every k counts over all maxk rows
CorrectKAllRows(correct, k) ==
    Cardinality({js \in (DOMAIN correct) \X (DOMAIN correct[1]) : correct[js[1]][js[2]]})

\* correct[:k].reshape(-1).float().sum(0)
CorrectK(correct, k) ==
    Cardinality({js \in (1 .. k) \X (DOMAIN correct[1]) : correct[js[1]][js[2]]})

\* res.append(correct_k.mul_(100.0 / batch_size)) for k in topk
AccuracyRes(correct, topk, batch_size) ==
    [j \in 1 .. Len(topk) |-> TrueDiv(CorrectK(correct, topk[j]) * 100, batch_size)]

InitAcc ==
    /\ SetupIdle
    /\ MeterIdle
    /\ WorkerIdle
    /\ RankIdle
    /\ \E b \in 1 .. MaxBatch :
          accuracy_call \in
              [pc : {"call"},
               output : [1 .. b -> ScoreRows],
               target : [1 .. b -> Classes],
               topk : TopkChoices,
               pred : {<<>>},
               correct : {<<>>},
               res : {<<>>}]

\* one call of accuracy
Accuracy ==
    /\ accuracy_call.pc = "call"
    /\ LET output == accuracy_call.output
           target == accuracy_call.target
           topk == accuracy_call.topk
           maxk == MaxOf(topk)
           batch_size == Len(target)
       IN  \E rows \in TopkBatch(output, maxk) :
              /\ LET pred == [j \in 1 .. maxk |-> [s \in DOMAIN output |-> rows[s][j]]]
                     correct == Correct(pred, target)
                 IN  accuracy_call' =
                        [accuracy_call EXCEPT !.pc = "returned",
                                              !.pred = pred,
                                              !.correct = correct,
                                              !.res = AccuracyRes(correct, topk, batch_size)]
    /\ UNCHANGED notAcc

NextAcc == Accuracy

SpecAcc == InitAcc /\ [][NextAcc]_vars

\* the classes the call ranked in the first k places for sample s
TopSet(s, k) == {accuracy_call.pred[j][s] : j \in 1 .. k}

\* C4: for every batch and every k in topk, accuracy returns
\* 100 * (the number of samples whose target is among the sample's k
\* highest-scored classes) / batch_size, one result per k in the order of topk;
\* among equally scored classes the k highest are the ones topk picked.
C4_TopkAccuracy ==
    accuracy_call.pc = "returned" =>
        LET output == accuracy_call.output
            target == accuracy_call.target
            topk == accuracy_call.topk
            res == accuracy_call.res
        IN  /\ Len(res) = Len(topk)
            /\ \A j \in 1 .. Len(topk) :
                  LET k == topk[j]
                      hits == {s \in DOMAIN target : target[s] \in TopSet(s, k)}
                      sure == {s \in DOMAIN target :
                                  Cardinality({c \in Classes \ {target[s]} :
                                      output[s][c] >= output[s][target[s]]}) < k}
                      never == {s \in DOMAIN target :
                                  Cardinality({c \in Classes :
                                      output[s][c] > output[s][target[s]]}) >= k}
                  IN  /\ \A s \in DOMAIN target :
                            /\ Cardinality(TopSet(s, k)) = k
                            /\ \A c \in TopSet(s, k), d \in Classes \ TopSet(s, k) :
                                  output[s][c] >= output[s][d]
                      /\ sure \subseteq hits
                      /\ hits \cap never = {}
                      /\ res[j][1] * Len(target) = 100 * Cardinality(hits) * res[j][2]

\* a call with two values of k whose results differ: one sample is a top-1 hit,
\* the other only a top-2 hit
C4_Witness ==
    /\ accuracy_call.pc = "returned"
    /\ accuracy_call.topk = <<1, 2>>
    /\ Len(accuracy_call.target) = 2
    /\ accuracy_call.res = <<<<50, 1>>, <<100, 1>>>>

(***************************************************************************)
(* main on every node and the head of main_worker: the world size and the  *)
(* global rank of each process.  --world-size is the number of nodes and   *)
(* --rank the rank of the node; gpu is None (here -1) when main calls      *)
(* main_worker itself.                                                     *)
(***************************************************************************)
NoGpu == -1

\* the assignments of the node ranks 0 .. n - 1 to n nodes
NodeRanks(n) ==
    {f \in [1 .. n -> 0 .. n - 1] : \A a, b \in 1 .. n : a # b => f[a] # f[b]}

InitRank ==
    /\ SetupIdle
    /\ MeterIdle
    /\ WorkerIdle
    /\ AccIdle
    /\ \E n \in 1 .. MaxNodes, g \in 1 .. MaxGpus, mpd \in BOOLEAN :
          \E f \in NodeRanks(n) :
              nodes = [k \in 1 .. n |->
                          [pc |-> "main",
                           world_size |-> n,
                           rank |-> f[k],
                           multiprocessing_distributed |-> mpd,
                           distributed |-> FALSE,
                           ngpus_per_node |-> g]]
    /\ spawned = <<>>

\* args.world_size = ngpus_per_node * args.world_size
TotalWorldSize(ngpus_per_node, world_size) == ngpus_per_node * world_size

\* a slip in the rank formula: the node rank is not scaled by the processes per node
GlobalRankUnscaled(rank, ngpus_per_node, gpu) == rank + gpu

\* args.rank = args.rank * ngpus_per_node + gpu
GlobalRank(rank, ngpus_per_node, gpu) == rank * ngpus_per_node + gpu

\* the processes main starts on a node, each with its copy of args
Spawn(k, a, gpus) ==
    [ng \in {<<k, g>> : g \in gpus} |->
        [pc |-> "main_worker",
         gpu |-> ng[2],
         rank |-> a.rank,
         world_size |-> a.world_size,
         distributed |-> a.distributed,
         multiprocessing_distributed |-> a.multiprocessing_distributed,
         ngpus_per_node |-> a.ngpus_per_node]]

\* main on node k: args.distributed, the adjusted world size, and mp.spawn of
\* ngpus_per_node processes or the direct call of main_worker
Main(k) ==
    /\ k \in DOMAIN nodes
    /\ nodes[k].pc = "main"
    /\ LET mpd == nodes[k].multiprocessing_distributed
           a == [nodes[k] EXCEPT
                    !.distributed = nodes[k].world_size > 1 \/ mpd,
                    !.world_size = IF mpd
                                   THEN TotalWorldSize(nodes[k].ngpus_per_node, @)
                                   ELSE @,
                    !.pc = "main_worker"]
           gpus == IF mpd THEN 0 .. nodes[k].ngpus_per_node - 1 ELSE {NoGpu}
       IN  /\ nodes' = [nodes EXCEPT ![k] = a]
           /\ spawned' = [ng \in DOMAIN spawned \cup DOMAIN Spawn(k, a, gpus) |->
                             IF ng \in DOMAIN spawned THEN spawned[ng]
                             ELSE Spawn(k, a, gpus)[ng]]
    /\ UNCHANGED notRank

\* the head of main_worker in process <<k, g>>: the global rank, then
\* dist.init_process_group(world_size, rank) when the run is distributed
MainWorkerRank(k, g) ==
    /\ <<k, g>> \in DOMAIN spawned
    /\ spawned[<<k, g>>].pc = "main_worker"
    /\ LET w == spawned[<<k, g>>]
       IN  spawned' = [spawned EXCEPT
                          ![<<k, g>>].rank =
                              IF w.distributed /\ w.multiprocessing_distributed
                              THEN GlobalRank(w.rank, w.ngpus_per_node, w.gpu)
                              ELSE @,
                          ![<<k, g>>].pc =
                              IF w.distributed THEN "in_process_group" ELSE "single"]
    /\ UNCHANGED <<nodes, notRank>>

NextRank ==
    \/ \E k \in 1 .. MaxNodes : Main(k)
    \/ \E k \in 1 .. MaxNodes, g \in NoGpu .. MaxGpus - 1 : MainWorkerRank(k, g)

SpecRank == InitRank /\ [][NextRank]_vars

\* the processes that have joined the process group
InGroup == {ng \in DOMAIN spawned : spawned[ng].pc = "in_process_group"}

\* C10: under --multiprocessing-distributed with N nodes of ranks 0 .. N-1 and G
\* processes per node, the world size becomes G * N and the rank of process gpu
\* of a node becomes node_rank * G + gpu; the ranks of all processes are
\* pairwise distinct and are exactly 0 .. G * N - 1.
C10_GlobalRanks ==
    (\A k \in DOMAIN nodes : nodes[k].multiprocessing_distributed) =>
        LET N == Len(nodes)
            G == nodes[1].ngpus_per_node
        IN  /\ \A ng \in DOMAIN spawned : spawned[ng].world_size = G * N
            /\ \A ng \in InGroup :
                  /\ spawned[ng].rank = nodes[ng[1]].rank * G + ng[2]
                  /\ spawned[ng].rank \in 0 .. G * N - 1
            /\ \A a, b \in InGroup : a # b => spawned[a].rank # spawned[b].rank
            /\ Cardinality(InGroup) = G * N =>
                  {spawned[ng].rank : ng \in InGroup} = 0 .. G * N - 1

\* every process of two or more nodes with two or more processes each has joined
C10_Witness ==
    /\ Len(nodes) >= 2
    /\ nodes[1].multiprocessing_distributed
    /\ nodes[1].ngpus_per_node >= 2
    /\ nodes[1].rank # 0
    /\ Cardinality(InGroup) = nodes[1].ngpus_per_node * Len(nodes)

(***************************************************************************)
(* main_worker from the parsed command line to the datasets: the --arch    *)
(* choice, the optional resume from a checkpoint, the image size and the   *)
(* validation transform.  An architecture name is the sequence of its      *)
(* parts between underscores, "efficientnet_b0" is <<"efficientnet", "b0">>.*)
(***************************************************************************)
\* the lower-case callables of torchvision.models (a sample of them), of a
\* torchvision without and with the EfficientNetV2 builders
TorchvisionModels ==
    {{<<"resnet18">>, <<"efficientnet", "b0">>, <<"efficientnet", "b7">>},
     {<<"resnet18">>, <<"efficientnet", "b0">>, <<"efficientnet", "b7">>,
      <<"efficientnet", "v2", "s">>}}

\* model_names: the torchvision names and the two appended ones
ModelNames(tv) == tv \cup {<<"fbnetc", "100">>, <<"spnasnet", "100">>}

\* the names a command line gives to --arch, accepted or not
ArchInputs ==
    UNION {ModelNames(tv) : tv \in TorchvisionModels}
        \cup {<<"mixnet", "s">>, <<"efficientnet", "b8">>}

\* part in name, for a part that is a whole piece of the name
Contains(name, part) == \E j \in DOMAIN name : name[j] = part

\* params_dict: name -> (width, depth, res, dropout), the coefficients in tenths
ParamsDict ==
    (<<"efficientnet", "b0">> :> <<10, 10, 224, 2>>) @@
    (<<"efficientnet", "b1">> :> <<10, 11, 240, 2>>) @@
    (<<"efficientnet", "b2">> :> <<11, 12, 260, 3>>) @@
    (<<"efficientnet", "b3">> :> <<12, 14, 300, 3>>) @@
    (<<"efficientnet", "b4">> :> <<14, 18, 380, 4>>) @@
    (<<"efficientnet", "b5">> :> <<16, 22, 456, 4>>) @@
    (<<"efficientnet", "b6">> :> <<18, 26, 528, 5>>) @@
    (<<"efficientnet", "b7">> :> <<20, 31, 600, 5>>) @@
    (<<"efficientnet", "b8">> :> <<22, 36, 672, 5>>) @@
    (<<"efficientnet", "l2">> :> <<43, 53, 800, 5>>)

\* get_image_size(model_name): the res entry of params_dict[model_name], or
\* assert False for a name that is not a key
GetImageSize(model_name) ==
    IF model_name \in DOMAIN ParamsDict
    THEN [raised |-> FALSE, res |-> ParamsDict[model_name][3]]
    ELSE [raised |-> TRUE, res |-> 0]

\* --image_size (default)
DefaultImageSize == 224

\* image_size = 112 of the mixnet branch
MixnetImageSize == 112

\* --image_size values
ImageSizes == {DefaultImageSize, 128}

\* best_acc1 values stored in a checkpoint file
CheckpointAccs == {0, 76}

\* a name that has no value yet, and the checkpoint torch.load returns
Unbound == [bound |-> FALSE, epoch |-> 0, best_acc1 |-> 0]

Loaded(file) == [bound |-> TRUE, epoch |-> file.epoch, best_acc1 |-> file.best_acc1]

\* val_transforms: Compose([Resize(size), CenterCrop(size), ToTensor(), normalize])
NoTransform == [bound |-> FALSE, resize |-> 0, crop |-> 0]

ValTransforms(size) == [bound |-> TRUE, resize |-> size, crop |-> size]

\* the command lines and the environments of a run: --resume is "" (default)
\* or a path, which names an existing checkpoint file or not; --gpu is None
\* or 0; CUDA is available or not
SetupArgs ==
    [arch : ArchInputs,
     resume : {"", "checkpoint.pth.tar"},
     gpu : {NoGpu, 0},
     dummy : BOOLEAN,
     image_size : ImageSizes,
     start_epoch : {0}]

SetupEnvs ==
    [models : TorchvisionModels,
     isfile : BOOLEAN,
     cuda : BOOLEAN,
     file : [epoch : 0 .. MaxEpochs, best_acc1 : CheckpointAccs]]

InitSetup ==
    /\ MeterIdle
    /\ WorkerIdle
    /\ AccIdle
    /\ RankIdle
    /\ \E a \in SetupArgs, e \in SetupEnvs :
          /\ a.resume = "" => ~e.isfile
          /\ ~e.isfile => e.file = [epoch |-> 0, best_acc1 |-> 0]
          /\ setup = [pc |-> "parse_args",
                      argv |-> a,
                      args |-> a,
                      env |-> e,
                      best_acc1 |-> InitialBestAcc1,
                      model_state |-> "initial",
                      optimizer_state |-> "initial",
                      scheduler_state |-> "initial",
                      checkpoint |-> Unbound,
                      val_transforms |-> NoTransform,
                      val_dataset |-> [kind |-> "none", size |-> 0],
                      printed |-> <<>>,
                      err |-> "none",
                      raised_in |-> "none"]

\* parser.parse_args(): --arch must be one of model_names, otherwise argparse
\* reports the usage error and exits
ParseArgs ==
    /\ setup # <<>>
    /\ setup.pc = "parse_args"
    /\ setup' = [setup EXCEPT !.pc = IF setup.args.arch \in ModelNames(setup.env.models)
                                     THEN "resume" ELSE "usage_error"]
    /\ UNCHANGED notSetup

\* optionally resume from a checkpoint
Resume ==
    /\ setup # <<>>
    /\ setup.pc = "resume"
    /\ IF setup.args.resume = ""
       THEN setup' = [setup EXCEPT !.pc = "image_size"]
       ELSE IF ~setup.env.isfile
       THEN setup' = [setup EXCEPT !.pc = "image_size",
                                   !.printed = Append(@, "no checkpoint found")]
       ELSE LET checkpoint == IF setup.args.gpu = NoGpu \/ setup.env.cuda
                              THEN Loaded(setup.env.file)
                              ELSE Unbound
            IN  IF ~checkpoint.bound
                THEN setup' = [setup EXCEPT !.pc = "error",
                                            !.err = "UnboundLocalError",
                                            !.raised_in = "resume",
                                            !.printed = Append(@, "loading checkpoint")]
                ELSE setup' = [setup EXCEPT !.pc = "image_size",
                                            !.checkpoint = checkpoint,
                                            !.args.start_epoch = checkpoint.epoch,
                                            !.best_acc1 = checkpoint.best_acc1,
                                            !.model_state = "loaded",
                                            !.optimizer_state = "loaded",
                                            !.scheduler_state = "loaded",
                                            !.printed = @ \o <<"loading checkpoint",
                                                               "loaded checkpoint">>]
    /\ UNCHANGED notSetup

\* the image size and the validation transform, by the architecture name
SelectImageSize ==
    /\ setup # <<>>
    /\ setup.pc = "image_size"
    /\ IF Contains(setup.args.arch, "efficientnet")
       THEN LET r == GetImageSize(setup.args.arch)
            IN  IF r.raised
                THEN setup' = [setup EXCEPT !.pc = "error",
                                            !.err = "AssertionError",
                                            !.raised_in = "image_size"]
                ELSE setup' = [setup EXCEPT !.pc = "datasets",
                                            !.val_transforms = ValTransforms(r.res),
                                            !.args.image_size = r.res]
       ELSE IF Contains(setup.args.arch, "mixnet")
       THEN setup' = [setup EXCEPT !.pc = "datasets",
                                   !.args.image_size = MixnetImageSize]
       ELSE setup' = [setup EXCEPT !.pc = "datasets",
                                   !.val_transforms = ValTransforms(setup.args.image_size)]
    /\ UNCHANGED notSetup

\* the validation dataset: FakeData of the image size with --dummy, otherwise
\* ImageFolder(valdir, val_transforms)
BuildDatasets ==
    /\ setup # <<>>
    /\ setup.pc = "datasets"
    /\ IF setup.args.dummy
       THEN setup' = [setup EXCEPT !.pc = "done",
                                   !.val_dataset = [kind |-> "FakeData",
                                                    size |-> setup.args.image_size]]
       ELSE IF ~setup.val_transforms.bound
       THEN setup' = [setup EXCEPT !.pc = "error",
                                   !.err = "UnboundLocalError",
                                   !.raised_in = "datasets"]
       ELSE setup' = [setup EXCEPT !.pc = "done",
                                   !.val_dataset = [kind |-> "ImageFolder",
                                                    size |-> setup.val_transforms.crop]]
    /\ UNCHANGED notSetup

NextSetup ==
    \/ ParseArgs
    \/ Resume
    \/ SelectImageSize
    \/ BuildDatasets

SpecSetup == InitSetup /\ [][NextSetup]_vars

(***************************************************************************)
(* Properties of the benchmarking loops, validate and the epoch loop.      *)
(***************************************************************************)
\* the process has left the loop of train or run_validate
PastLoop(p) ==
    \/ proc[p].pc \in {"train_report", "train_returned", "val_report", "val_pass_done"}
    \/ proc[p].pc = "returned" /\ (proc[p].trained # <<>> \/ proc[p].validated > 0)
    \/ proc[p].pc = "error" /\ proc[p].err = "ZeroDivisionError"

\* C1: for every loader length L >= 0 and every num_iter >= 0 the loop of train
\* and the loop of run_validate run their body for exactly the indices
\* 0 .. min(num_iter, L) - 1, in order, never for an index >= num_iter, and end.
C1_LoopBounded ==
    \A p \in Procs :
        args.num_iter >= 0 =>
            LET n == Min(args.num_iter, args.len_loader)
                it == proc[p].iters
            IN  /\ Len(it) <= n
                /\ \A k \in 1 .. Len(it) : it[k].i = k - 1 /\ it[k].i < args.num_iter
                /\ PastLoop(p) => Len(it) = n

\* run_validate left its loop by the break at i == num_iter, batches remaining
C1_Witness ==
    \E p \in Procs :
        /\ PastLoop(p)
        /\ args.num_iter = 2
        /\ args.len_loader > 2
        /\ Len(proc[p].iters) = 2
        /\ proc[p].iters[1].fn = "run_validate"

RECURSIVE TimedCount(_)
TimedCount(it) ==
    IF it = <<>> THEN 0
    ELSE (IF it[1].timed THEN 1 ELSE 0) + TimedCount(Tail(it))

RECURSIVE TimedSum(_)
TimedSum(it) ==
    IF it = <<>> THEN 0
    ELSE (IF it[1].timed THEN it[1].duration ELSE 0) + TimedSum(Tail(it))

\* the windowing statement of C2 for one process
WindowHolds(p) ==
    LET n == Min(args.num_iter, args.len_loader)
        it == proc[p].iters
        bt == proc[p].batch_time
    IN  /\ \A k \in 1 .. Len(it) :
              it[k].timed <=> (args.num_warmup <= it[k].i /\ it[k].i < n)
        /\ bt.count = TimedCount(it)
        /\ bt.sum = TimedSum(it)
        /\ bt.avg[1] * bt.count = bt.sum * bt.avg[2]
        /\ PastLoop(p) =>
              /\ bt.count = Max(0, n - args.num_warmup)
              /\ \A j \in 0 .. n - 1 :
                    args.num_warmup <= j =>
                        \E k \in 1 .. Len(it) : it[k].i = j /\ it[k].timed

\* C2 as stated: in one pass over a loader of length L, batch_time is updated
\* with the duration of iteration i iff num_warmup <= i < min(num_iter, L), so at
\* the end count = max(0, min(num_iter, L) - num_warmup) and avg is the mean of
\* exactly those durations (for every num_iter and num_warmup the parser accepts).
C2_WindowAsStated == \A p \in Procs : WindowHolds(p)

\* C2 (amended): the same, for num_iter >= 0 and num_warmup >= 0.
C2_Window ==
    \A p \in Procs :
        (args.num_iter >= 0 /\ args.num_warmup >= 0) => WindowHolds(p)

\* a finished pass with one warmup iteration and two measured ones of different length
C2_Witness ==
    \E p \in Procs :
        /\ PastLoop(p)
        /\ args.num_warmup = 1
        /\ args.num_iter >= 0
        /\ Len(proc[p].iters) = 3
        /\ proc[p].batch_time.count = 2
        /\ proc[p].batch_time.sum = 3

\* C5: for num_iter >= 0 and num_warmup >= 0 and any loader length train and
\* validate end their pass by reporting latency and throughput without raising,
\* also when no iteration falls in the measurement window.
C5_ReportNeverRaises ==
    \A p \in Procs :
        (args.num_iter >= 0 /\ args.num_warmup >= 0) =>
            ~(proc[p].pc = "error" /\ proc[p].err = "ZeroDivisionError")

RECURSIVE AccSum(_, _)
AccSum(it, n) ==
    IF it = <<>> THEN 0 ELSE it[1].acc * n + AccSum(Tail(it), n)

\* C7: the value validate returns (top1.avg) is the sample-weighted average top-1
\* accuracy over the batches run_validate processed: the Acc@1 meter took one
\* update per evaluated batch, with that batch's accuracy and the batch size.
C7_Top1IsWeightedAccuracy ==
    \A p \in Procs :
        (args.evaluate /\ proc[p].pc = "returned") =>
            /\ proc[p].top1.count = Len(proc[p].iters) * args.batch_size
            /\ proc[p].top1.sum = AccSum(proc[p].iters, args.batch_size)
            /\ proc[p].ret[1] * proc[p].top1.count = proc[p].top1.sum * proc[p].ret[2]

\* C8: with --jit, when tracing fails validate keeps the untraced model and the
\* validation pass runs to completion: the failure does not abort the run.
C8_TraceFailureFallsBack ==
    \A p \in Procs :
        (args.jit /\ proc[p].trace = "failed") =>
            /\ proc[p].model = "model"
            /\ proc[p].pc # "error"

\* C9: without --evaluate main_worker trains every epoch e in
\* start_epoch .. epochs - 1 in increasing order and after each training pass
\* validates, steps the scheduler and saves a checkpoint recording e + 1.
C9_EveryEpochTrained ==
    \A p \in Procs :
        (~args.evaluate /\ proc[p].pc = "returned") =>
            LET n == Max(0, args.epochs - args.start_epoch)
            IN  /\ proc[p].trained = [k \in 1 .. n |-> args.start_epoch + k - 1]
                /\ proc[p].validated = n
                /\ proc[p].scheduler_steps = n
                /\ proc[p].checkpoints = [k \in 1 .. n |-> args.start_epoch + k]

(***************************************************************************)
(* Properties of validate in a distributed run.                            *)
(***************************************************************************)
\* C11: in a distributed run every process that has all-reduced its Acc@1 meter
\* after run_validate goes on without raising an error, and processes that have
\* returned from validate hold the same returned value.
C11_DistributedValidateReturns ==
    \A p \in Procs :
        (args.distributed /\ proc[p].all_reduce_calls > 0) =>
            /\ proc[p].pc # "error"
            /\ \A q \in Procs :
                  (proc[p].pc = "returned" /\ proc[q].pc = "returned") =>
                      proc[p].ret = proc[q].ret

\* validate was called by process p and has ended, by return or by an exception
ValidateOver(p) ==
    /\ proc[p].validated > 0
    /\ proc[p].pc \in {"returned", "error"}

\* C16: in a distributed run validate makes a second run_validate pass if and
\* only if len(sampler) * world_size < len(dataset); the pass is over the indices
\* len(sampler) * world_size .. len(dataset) - 1, which with the indices of the
\* ranks' samplers are all of the dataset, each once; and batch_time counts the
\* measured iterations of both passes.
C16_AuxiliaryPass ==
    \A p \in Procs :
        (args.distributed /\ ValidateOver(p)) =>
            /\ proc[p].run_validate_calls = (IF AuxNeeded(args) THEN 2 ELSE 1)
            /\ proc[p].batch_time.count = TimedCount(proc[p].iters)
            /\ \A r \in 0 .. args.world_size - 1 :
                  AuxIndices(args) \cap SamplerIndices(args, r) = {}
            /\ AuxIndices(args)
                  \cup UNION {SamplerIndices(args, r) : r \in 0 .. args.world_size - 1}
                      = 0 .. args.len_dataset - 1
            /\ AuxNeeded(args) <=> AuxIndices(args) # {}

(***************************************************************************)
(* Properties of the profiling hook.                                       *)
(***************************************************************************)
\* the positions in the pass of process p whose body ran with the profiling
\* context enabled
ProfiledAt(p) == {k \in DOMAIN proc[p].iters : proc[p].iters[k].profiled}

\* the index i is the floor of (num_iter + num_warmup) / 2
IsMiddle(i, a) ==
    /\ 2 * i <= a.num_iter + a.num_warmup
    /\ a.num_iter + a.num_warmup < 2 * i + 2

\* what holds of the profiled iterations for every num_iter and num_warmup
ProfiledOnceInTheMiddle(p) ==
    /\ Cardinality(ProfiledAt(p)) <= 1
    /\ \A k \in ProfiledAt(p) :
          /\ args.profile
          /\ IsMiddle(proc[p].iters[k].i, args)
          /\ args.num_warmup < args.num_iter =>
                /\ args.num_warmup <= proc[p].iters[k].i
                /\ proc[p].iters[k].i < args.num_iter

\* C12 as stated: in one pass at most one iteration runs with the profiling
\* context enabled, it is iteration (num_iter + num_warmup) // 2 and --profile is
\* set; when num_warmup < num_iter it lies in the measurement window, and when
\* num_warmup >= num_iter no iteration is profiled.
C12_ProfilingAsStated ==
    \A p \in Procs :
        /\ ProfiledOnceInTheMiddle(p)
        /\ args.num_warmup >= args.num_iter => ProfiledAt(p) = {}

\* C12: in one pass at most one iteration runs with the profiling context
\* enabled, it is iteration (num_iter + num_warmup) // 2 and --profile is set;
\* when num_warmup < num_iter it lies in the measurement window, and when
\* num_warmup >= num_iter and num_iter >= 0 no iteration is profiled.
C12_Profiling ==
    \A p \in Procs :
        /\ ProfiledOnceInTheMiddle(p)
        /\ (args.num_warmup >= args.num_iter /\ args.num_iter >= 0) =>
              ProfiledAt(p) = {}

\* a finished pass with --profile whose second iteration was the profiled one
\* and was followed by an iteration that was not profiled
C12_Witness ==
    \E p \in Procs :
        /\ PastLoop(p)
        /\ args.profile
        /\ args.num_warmup >= 0
        /\ args.num_warmup < args.num_iter
        /\ Len(proc[p].iters) >= 3
        /\ ProfiledAt(p) = {2}

(***************************************************************************)
(* Properties of the --evaluate branch of main_worker.                     *)
(***************************************************************************)
\* C13: with --evaluate, main_worker calls validate once and never again, the
\* return of validate is the return of main_worker, and at no point has train
\* run, scheduler.step() or save_checkpoint been called or best_acc1 changed.
C13_EvaluateOnly ==
    \A p \in Procs :
        args.evaluate =>
            /\ proc[p].validated <= 1
            /\ proc[p].pc \notin {"main_worker", "validate"} => proc[p].validated = 1
            /\ proc[p].pc \in {"main_worker", "validate", "val_loop", "val_report",
                               "val_pass_done", "returned", "error"}
            /\ proc[p].trained = <<>>
            /\ proc[p].scheduler_steps = 0
            /\ proc[p].checkpoints = <<>>
            /\ proc[p].best_acc1 = InitialBestAcc1

\* main_worker has returned from an --evaluate run that was given epochs to
\* train and whose validation pass ran two iterations
C13_Witness ==
    \E p \in Procs :
        /\ args.evaluate
        /\ args.start_epoch < args.epochs
        /\ proc[p].pc = "returned"
        /\ proc[p].validated = 1
        /\ Len(proc[p].iters) = 2

(***************************************************************************)
(* Properties of the set-up of main_worker.                                *)
(***************************************************************************)
\* the resume step is over: main_worker went on, or the step raised
ResumeOver ==
    \/ setup.pc \in {"image_size", "datasets", "done"}
    \/ setup.raised_in # "none"

\* C14: after the resume step with a --resume path, if the path is not an
\* existing file only the message is printed, start_epoch, best_acc1 and the
\* model, optimizer and scheduler states are as before and the run continues; if
\* it is an existing file, start_epoch and best_acc1 are the checkpoint's and the
\* three states are loaded, whatever args.gpu and the availability of CUDA.
C14_ResumeHandling ==
    (setup.args.resume # "" /\ ResumeOver) =>
        /\ setup.raised_in # "resume"
        /\ ~setup.env.isfile =>
              /\ setup.printed = <<"no checkpoint found">>
              /\ setup.args.start_epoch = setup.argv.start_epoch
              /\ setup.best_acc1 = InitialBestAcc1
              /\ setup.model_state = "initial"
              /\ setup.optimizer_state = "initial"
              /\ setup.scheduler_state = "initial"
        /\ setup.env.isfile =>
              /\ setup.args.start_epoch = setup.env.file.epoch
              /\ setup.best_acc1 = setup.env.file.best_acc1
              /\ setup.model_state = "loaded"
              /\ setup.optimizer_state = "loaded"
              /\ setup.scheduler_state = "loaded"

\* the image size step is over: main_worker went on to the datasets, or the
\* step or the construction of the datasets raised
ImageSizeOver ==
    \/ setup.pc \in {"datasets", "done"}
    \/ setup.raised_in \in {"image_size", "datasets"}

\* the image size the architecture name stands for
ImageSizeOf(arch, given) ==
    IF Contains(arch, "efficientnet") /\ arch \in DOMAIN ParamsDict
    THEN ParamsDict[arch][3]
    ELSE IF Contains(arch, "mixnet") THEN MixnetImageSize
    ELSE given

\* C15: for every architecture name the parser accepts, once main_worker is
\* past the image size step neither that step nor the construction of the
\* datasets has raised, args.image_size is the params_dict resolution for an
\* efficientnet name, 112 for a mixnet name and the --image_size value otherwise,
\* and the validation transform is defined, with and without --dummy;
\* get_image_size gives the resolution entry of params_dict for a name in it and
\* fails its assertion for any other name.
C15_ImageSizeAndTransform ==
    /\ (setup.args.arch \in ModelNames(setup.env.models) /\ ImageSizeOver) =>
          /\ setup.raised_in \notin {"image_size", "datasets"}
          /\ setup.args.image_size = ImageSizeOf(setup.args.arch, setup.argv.image_size)
          /\ setup.val_transforms.bound
    /\ \A name \in ArchInputs :
          IF name \in DOMAIN ParamsDict
          THEN GetImageSize(name) = [raised |-> FALSE, res |-> ParamsDict[name][3]]
          ELSE GetImageSize(name).raised

====
